---- MODULE Spec2Model ----
(***************************************************************************)
(* A model of hdx-scraper-reliefweb: the recursive flattener               *)
(* (_flatten_data), the batch formatter (_format_data), the fetch loop     *)
(* (ReliefWeb.scrape_data), the dataset assembler                          *)
(* (ReliefWeb.generate_dataset) and the driver (main).                     *)
(*                                                                         *)
(* Encoding of Python values.                                              *)
(*   A JSON value is a record [t, n, s, kv, xs]:                           *)
(*     t = "int"  : the integer n                                          *)
(*     t = "str"  : the string s, a sequence of characters                 *)
(*     t = "none" : None                                                   *)
(*     t = "bool" : True (n = 1) or False (n = 0)                          *)
(*     t = "dict" : the mapping kv, a sequence of <<key, value>> pairs in  *)
(*                  insertion order, keys distinct                         *)
(*     t = "list" : the list xs                                            *)
(*   A dict key (and a key of flat_dict) is a string.  The separator is    *)
(*   always "-" (sep is never passed), and the code only ever concatenates *)
(*   keys with the separator, tests a key for a prefix that ends with the  *)
(*   separator, and cuts that prefix off.  A key is therefore kept as the  *)
(*   sequence of its separator-free segments, str.split(sep): "a-b" is     *)
(*   <<"a", "b">>, "" is <<"">>, "-" is <<"", "">>.  split is a bijection  *)
(*   between strings and non-empty sequences of separator-free words, and  *)
(*   under it  x + sep + y  is  x \o y,  k.startswith(p + sep)  is  "p is  *)
(*   a proper prefix of k", and  k[len(p + sep):]  is the rest of k.       *)
(***************************************************************************)
EXTENDS Integers, Sequences, FiniteSets, TLC

VARIABLES
    data,            \* _flatten_data: the argument
    flat,            \* _flatten_data: the returned flat_dict
    fpc,             \* _flatten_data: "call" before, "return" after
    pc,              \* main: position of the driver
    idx,             \* scrape_data: number of listing items visited
    listing,         \* scrape_data: disaster_list, the listing's items
    fetched,         \* what the retriever did for each visited item
    disasters_list,  \* scrape_data: the accumulating result list
    log,             \* logger calls of scrape_data, <<level, item>>
    exc,             \* the exception that left the driver, or "none"
    columns          \* generate_dataset: first argument of generate_resource_from_iterable

flatVars == <<data, flat, fpc>>
pipeVars == <<pc, idx, listing, fetched, disasters_list, log, exc, columns>>
vars == <<data, flat, fpc, pc, idx, listing, fetched, disasters_list, log, exc, columns>>

-----------------------------------------------------------------------------
(* Python values *)

PyInt(i) == [t |-> "int", n |-> i, s |-> <<>>, kv |-> <<>>, xs |-> <<>>]
PyStrVal(chars) == [t |-> "str", n |-> 0, s |-> chars, kv |-> <<>>, xs |-> <<>>]
PyNone == [t |-> "none", n |-> 0, s |-> <<>>, kv |-> <<>>, xs |-> <<>>]
PyTrue == [t |-> "bool", n |-> 1, s |-> <<>>, kv |-> <<>>, xs |-> <<>>]
PyDict(items) == [t |-> "dict", n |-> 0, s |-> <<>>, kv |-> items, xs |-> <<>>]
PyList(elems) == [t |-> "list", n |-> 0, s |-> <<>>, kv |-> <<>>, xs |-> elems]

IsDict(v) == v.t = "dict"
IsList(v) == v.t = "list"

Digit(d) == <<"0", "1", "2", "3", "4", "5", "6", "7", "8", "9">>[d + 1]

RECURSIVE NatStr(_)
NatStr(i) == IF i < 10 THEN <<Digit(i)>> ELSE NatStr(i \div 10) \o <<Digit(i % 10)>>

\* str(value) for the scalars of the model
PyStr(v) ==
    CASE v.t = "int" -> IF v.n < 0 THEN <<"-">> \o NatStr(-v.n) ELSE NatStr(v.n)
      [] v.t = "str" -> v.s
      [] v.t = "none" -> <<"N", "o", "n", "e">>
      [] v.t = "bool" -> IF v.n = 1 THEN <<"T", "r", "u", "e">>
                         ELSE <<"F", "a", "l", "s", "e">>

\* ", ".join(strs)
RECURSIVE JoinFrom(_, _)
JoinFrom(strs, i) ==
    IF i > Len(strs) THEN <<>>
    ELSE IF i = Len(strs) THEN strs[i]
    ELSE strs[i] \o <<",", " ">> \o JoinFrom(strs, i + 1)

CommaJoin(strs) == JoinFrom(strs, 1)

\* ", ".join(map(str, v))
JoinValues(v) == PyStrVal(CommaJoin([i \in 1..Len(v) |-> PyStr(v[i])]))

-----------------------------------------------------------------------------
(* Python dicts: insertion-ordered sequences of <<key, value>> *)

DictKeys(d) == [i \in 1..Len(d) |-> d[i][1]]
DictHas(d, k) == \E i \in 1..Len(d) : d[i][1] = k
DictIndex(d, k) == CHOOSE i \in 1..Len(d) : d[i][1] = k
DictGet(d, k) == d[DictIndex(d, k)][2]

\* faulty variant of DictSet: a present key is taken out and put last
DictSetMovesKey(d, k, v) ==
    Append(SelectSeq(d, LAMBDA e : e[1] # k), <<k, v>>)

\* d[k] = v: a present key keeps its position, a new key goes last
DictSet(d, k, v) ==
    IF DictHas(d, k) THEN [d EXCEPT ![DictIndex(d, k)] = <<k, v>>]
    ELSE Append(d, <<k, v>>)

\* d.pop(k, None)
DictPop(d, k) ==
    IF DictHas(d, k)
    THEN LET i == DictIndex(d, k) IN SubSeq(d, 1, i - 1) \o SubSeq(d, i + 1, Len(d))
    ELSE d

-----------------------------------------------------------------------------
(* Keys *)

EmptyKey == <<"">>

\* faulty variant of NewKey: the separator is put in under an empty parent path too
NewKeyAlwaysJoined(parent_key, key) == parent_key \o key

\* new_key = f"{parent_key}{sep}{key}" if parent_key else key
NewKey(parent_key, key) == IF parent_key # EmptyKey THEN parent_key \o key ELSE key

\* k.startswith(key_root), key_root = f"{parent_key}{sep}"
StartsWithRoot(k, parent_key) ==
    /\ Len(k) > Len(parent_key)
    /\ SubSeq(k, 1, Len(parent_key)) = parent_key

\* k[len(key_root):]
CutRoot(k, parent_key) == SubSeq(k, Len(parent_key) + 1, Len(k))

\* f"{parent_key}{sep}{k}"
EmitKey(parent_key, k) == parent_key \o k

-----------------------------------------------------------------------------
(* _flatten_data *)

\* flattened_dict: the entries of flat_dict under key_root, the root cut off
RECURSIVE ScanFlatDict(_, _, _)
ScanFlatDict(flat_dict, i, parent_key) ==
    IF i > Len(flat_dict) THEN <<>>
    ELSE LET k == flat_dict[i][1]
             rest == ScanFlatDict(flat_dict, i + 1, parent_key)
         IN  IF StartsWithRoot(k, parent_key)
             THEN <<<<CutRoot(k, parent_key), flat_dict[i][2]>>>> \o rest
             ELSE rest

\* list_items[k].append(v), after "if k not in list_items: list_items[k] = []"
ListItemsAppend(list_items, k, v) ==
    IF DictHas(list_items, k)
    THEN DictSet(list_items, k, Append(DictGet(list_items, k), v))
    ELSE DictSet(list_items, k, <<v>>)

\* for k, v in flattened_dict.items(): list_items[k].append(v)
RECURSIVE CollectFlattened(_, _, _)
CollectFlattened(flattened_dict, i, list_items) ==
    IF i > Len(flattened_dict) THEN list_items
    ELSE CollectFlattened(flattened_dict, i + 1,
            ListItemsAppend(list_items, flattened_dict[i][1], flattened_dict[i][2]))

\* for k, v in list_items.items(): flat_dict[f"{parent_key}{sep}{k}"] = ", ".join(map(str, v))
RECURSIVE EmitListItems(_, _, _, _)
EmitListItems(list_items, i, parent_key, flat_dict) ==
    IF i > Len(list_items) THEN flat_dict
    ELSE EmitListItems(list_items, i + 1, parent_key,
            DictSet(flat_dict, EmitKey(parent_key, list_items[i][1]),
                    JoinValues(list_items[i][2])))

RECURSIVE FlattenInner(_, _, _)
RECURSIVE FlattenDictItems(_, _, _, _)
RECURSIVE FlattenListItems(_, _, _, _, _)

\* for key, value in item.items(): _flatten_inner(value, new_key)
FlattenDictItems(items, i, parent_key, flat_dict) ==
    IF i > Len(items) THEN flat_dict
    ELSE FlattenDictItems(items, i + 1, parent_key,
            FlattenInner(items[i][2], NewKey(parent_key, items[i][1]), flat_dict))

\* for value in item: ...   The result is <<flat_dict, list_items>>.
FlattenListItems(elems, i, parent_key, flat_dict, list_items) ==
    IF i > Len(elems) THEN <<flat_dict, list_items>>
    ELSE IF IsDict(elems[i])
    THEN LET fd == FlattenInner(elems[i], parent_key, flat_dict)
             flattened_dict == ScanFlatDict(fd, 1, parent_key)
         IN  FlattenListItems(elems, i + 1, parent_key, fd,
                 CollectFlattened(flattened_dict, 1, list_items))
    ELSE FlattenListItems(elems, i + 1, parent_key, flat_dict,
             ListItemsAppend(list_items, parent_key, PyStrVal(PyStr(elems[i]))))

\* _flatten_inner(item, parent_key), flat_dict threaded through
FlattenInner(item, parent_key, flat_dict) ==
    IF IsDict(item) THEN FlattenDictItems(item.kv, 1, parent_key, flat_dict)
    ELSE IF IsList(item)
    THEN LET r == FlattenListItems(item.xs, 1, parent_key, flat_dict, <<>>)
         IN  EmitListItems(r[2], 1, parent_key, r[1])
    ELSE DictSet(flat_dict, parent_key, item)

\* flat_dict = {}; _flatten_inner(data); return flat_dict
FlattenData(d) == FlattenInner(d, EmptyKey, <<>>)

-----------------------------------------------------------------------------
(* _format_data and the body of scrape_data's loop *)

DataKey == <<"data">>
FieldsKey == <<"fields">>

\* not disaster_data
Falsy(v) ==
    \/ v.t = "none"
    \/ v.t \in {"int", "bool"} /\ v.n = 0
    \/ v.t = "str" /\ v.s = <<>>
    \/ v.t = "dict" /\ v.kv = <<>>
    \/ v.t = "list" /\ v.xs = <<>>

\* for d in data["data"]: d["fields"] = _flatten_data(d.pop("fields"))
\* The result is the KeyError raised, or the flattened fields of each d.
FormatData(body) ==
    IF ~DictHas(body.kv, DataKey) THEN [raised |-> "KeyError", fields |-> <<>>]
    ELSE LET ds == DictGet(body.kv, DataKey).xs
         IN  IF \E i \in 1..Len(ds) : ~DictHas(ds[i].kv, FieldsKey)
             THEN [raised |-> "KeyError", fields |-> <<>>]
             ELSE [raised |-> "none",
                   fields |-> [i \in 1..Len(ds) |-> FlattenData(DictGet(ds[i].kv, FieldsKey))]]

\* faulty variant of RemoveKeys: "uuid" is left out
RemoveKeysWithoutUuid ==
    <<<<"type", "primary">>, <<"country", "primary">>,
      <<"profile", "overview">>, <<"profile", "overview", "html">>>>

\* remove_keys
RemoveKeys ==
    <<<<"uuid">>, <<"type", "primary">>, <<"country", "primary">>,
      <<"profile", "overview">>, <<"profile", "overview", "html">>>>

\* for key in remove_keys: disaster_fields.pop(key, None)
RECURSIVE PopKeys(_, _, _)
PopKeys(disaster_fields, keys, i) ==
    IF i > Len(keys) THEN disaster_fields
    ELSE PopKeys(DictPop(disaster_fields, keys[i]), keys, i + 1)

\* faulty variant of AppendRow: the row is put first
PrependRow(rows, disaster_fields) == <<disaster_fields>> \o rows

\* disasters_list.append(disaster_fields)
AppendRow(rows, disaster_fields) == Append(rows, disaster_fields)

\* "404" in str(e)
Is404(outcome) == outcome.msg404

\* One pass of the loop body for what the retriever did: the exception that
\* leaves it ("none" when it ends normally), the logger call, the new list.
ScrapeStep(outcome, rows) ==
    IF outcome.raises
    THEN [raised |-> "none", logged |-> IF Is404(outcome) THEN "info" ELSE "error",
          rows |-> rows]
    ELSE IF Falsy(outcome.body)
    THEN [raised |-> "none", logged |-> "info", rows |-> rows]
    ELSE LET flat_data == FormatData(outcome.body)
         IN  IF flat_data.raised # "none"
             THEN [raised |-> flat_data.raised, logged |-> "none", rows |-> rows]
             ELSE IF Len(flat_data.fields) = 0
             THEN [raised |-> "IndexError", logged |-> "none", rows |-> rows]
             ELSE [raised |-> "none", logged |-> "none",
                   rows |-> AppendRow(rows, PopKeys(flat_data.fields[1], RemoveKeys, 1))]

-----------------------------------------------------------------------------
(* Bounded inputs *)

MaxDictLen == 2
MaxListLen == 2
MaxItems == 2

\* sequences of n distinct keys of K
KeySeqs(K, n) == {q \in [1..n -> K] : \A i, j \in 1..n : q[i] = q[j] => i = j}

\* the mapping with keys ks and values vs, in that order
ZipDict(ks, vs) == PyDict([i \in 1..Len(ks) |-> <<ks[i], vs[i]>>])

\* mappings with at most n entries, keys in K (distinct), values in V
DictsOver(K, V, n) ==
    UNION {{ZipDict(ks, vs) : ks \in KeySeqs(K, m), vs \in [1..m -> V]} : m \in 0..n}

Scalars == {PyInt(1), PyStrVal(<<"A">>)}

\* keys of the root mapping: "", "a" and "a-b"
RootKeys == {<<"">>, <<"a">>, <<"a", "b">>}
\* keys of a nested mapping: "", "b"
InnerKeys == {<<"">>, <<"b">>}
\* keys of a mapping that is a list element: "b", "c"
ElemKeys == {<<"b">>, <<"c">>}
\* keys of a scalar entry beside a list: "a-b", "b"
SiblingKeys == {<<"a", "b">>, <<"b">>}
\* keys a list sits under: "", "a"
ListKeys == {<<"">>, <<"a">>}

\* values of a tree's root mapping: scalars and mappings of scalars
TreeValues == Scalars \cup DictsOver(InnerKeys, Scalars, MaxDictLen)

\* elements of a list: scalars and mappings of scalars
ElemValues == Scalars \cup DictsOver(ElemKeys, Scalars, MaxDictLen)

\* a detail response: {"data": [{"fields": fields}]}
DetailBody(fields) == PyDict(<<<<DataKey, PyList(<<PyDict(<<<<FieldsKey, fields>>>>)>>)>>>>)

\* entries of the fields of a detail response:
\*   "id": 1, "uuid": "A", "profile": {"overview": "A", "overview-html": "A"},
\*   "type": [{"id": 1}, {"id": 2, "primary": True}], "tags": [1, {"id": 2}]
FieldEntries ==
    { <<<<"id">>, PyInt(1)>>,
      <<<<"uuid">>, PyStrVal(<<"A">>)>>,
      <<<<"profile">>, PyDict(<<<<<<"overview">>, PyStrVal(<<"A">>)>>,
                                <<<<"overview", "html">>, PyStrVal(<<"A">>)>>>>)>>,
      <<<<"type">>, PyList(<<PyDict(<<<<<<"id">>, PyInt(1)>>>>),
                             PyDict(<<<<<<"id">>, PyInt(2)>>, <<<<"primary">>, PyTrue>>>>)>>)>>,
      <<<<"tags">>, PyList(<<PyInt(1), PyDict(<<<<<<"id">>, PyInt(2)>>>>)>>)>> }

\* fields of none, one or two of these entries, in either order
DetailFields ==
    {PyDict(<<>>)}
    \cup {PyDict(<<e>>) : e \in FieldEntries}
    \cup {PyDict(<<e[1], e[2]>>) : e \in {q \in FieldEntries \X FieldEntries : q[1] # q[2]}}

\* detail responses that are not {"data": [{"fields": ...}]}:
\*   {"error": 1}, {"data": []}, {"data": [{"id": 1}]}
MalformedBodies ==
    { PyDict(<<<<<<"error">>, PyInt(1)>>>>),
      PyDict(<<<<DataKey, PyList(<<>>)>>>>),
      PyDict(<<<<DataKey, PyList(<<PyDict(<<<<<<"id">>, PyInt(1)>>>>)>>)>>>>) }

\* what download_json(disaster_url) can do: raise with or without "404" in the
\* message, or return a body
Outcomes ==
    {[raises |-> TRUE, msg404 |-> m, body |-> PyNone] : m \in BOOLEAN}
    \cup {[raises |-> FALSE, msg404 |-> FALSE, body |-> b] :
            b \in {PyNone, PyDict(<<>>)} \cup MalformedBodies
                    \cup {DetailBody(f) : f \in DetailFields}}

\* d is a tree of nested mappings with scalar leaves and no lists
TreeInput(d) ==
    \E n \in 0..MaxDictLen : \E ks \in KeySeqs(RootKeys, n) : \E vs \in [1..n -> TreeValues] :
        d = ZipDict(ks, vs)

\* d is a list l at the root, under a key p alone, or under p before or after
\* one scalar entry
ListInput(d) ==
    \E m \in 0..MaxListLen : \E elems \in [1..m -> ElemValues] :
        LET l == PyList(elems)
        IN  \/ d = l
            \/ \E p \in ListKeys :
                \/ d = PyDict(<<<<p, l>>>>)
                \/ \E k \in SiblingKeys \ {p} :
                    \/ d = PyDict(<<<<k, PyInt(1)>>, <<p, l>>>>)
                    \/ d = PyDict(<<<<p, l>>, <<k, PyInt(1)>>>>)

-----------------------------------------------------------------------------
(* The flattener applied to one input *)

NoException == [type |-> "none", at |-> "none"]

PipeIdle ==
    /\ pc = "idle" /\ idx = 0 /\ listing = <<>> /\ fetched = <<>>
    /\ disasters_list = <<>> /\ log = <<>> /\ exc = NoException /\ columns = <<>>

FlattenInit ==
    /\ TreeInput(data) \/ ListInput(data)
    /\ flat = <<>>
    /\ fpc = "call"
    /\ PipeIdle

\* flat_dict = _flatten_data(data)
FlattenCall ==
    /\ fpc = "call"
    /\ flat' = FlattenData(data)
    /\ fpc' = "return"
    /\ UNCHANGED <<data, pc, idx, listing, fetched, disasters_list, log, exc, columns>>

FlattenNext == FlattenCall

FlattenSpec == FlattenInit /\ [][FlattenNext]_vars

-----------------------------------------------------------------------------
(* main: scrape_data, generate_dataset, create_in_hdx *)

Init ==
    /\ pc = "start" /\ idx = 0 /\ listing = <<>> /\ fetched = <<>>
    /\ disasters_list = <<>> /\ log = <<>> /\ exc = NoException /\ columns = <<>>
    /\ data = PyNone /\ flat = <<>> /\ fpc = "idle"

\* data = self._retriever.download_json(data_url); disaster_list = data["data"]
DownloadListing ==
    /\ pc = "start"
    /\ \E n \in 0..MaxItems : listing' = [i \in 1..n |-> i]
    /\ pc' = "loop"
    /\ UNCHANGED <<idx, fetched, disasters_list, log, exc, columns, data, flat, fpc>>

\* the listing's download raises: nothing catches it
ListingFails ==
    /\ pc = "start"
    /\ pc' = "raised"
    /\ exc' = [type |-> "DownloadError", at |-> "listing"]
    /\ UNCHANGED <<idx, listing, fetched, disasters_list, log, columns, data, flat, fpc>>

\* for disaster in disaster_list: one pass of the loop body
ScrapeItem ==
    /\ pc = "loop"
    /\ idx < Len(listing)
    /\ \E outcome \in Outcomes :
        LET step == ScrapeStep(outcome, disasters_list)
        IN  /\ fetched' = Append(fetched, outcome)
            /\ idx' = idx + 1
            /\ disasters_list' = step.rows
            /\ log' = IF step.logged = "none" THEN log
                      ELSE Append(log, <<step.logged, idx + 1>>)
            /\ IF step.raised = "none"
               THEN UNCHANGED <<pc, exc>>
               ELSE /\ pc' = "raised"
                    /\ exc' = [type |-> step.raised, at |-> "item"]
    /\ UNCHANGED <<listing, columns, data, flat, fpc>>

\* return disasters_list
ScrapeReturn ==
    /\ pc = "loop"
    /\ idx = Len(listing)
    /\ pc' = "generate"
    /\ UNCHANGED <<idx, listing, fetched, disasters_list, log, exc, columns, data, flat, fpc>>

\* generate_dataset: list(disaster_list[0].keys()) is the column list
GenerateDataset ==
    /\ pc = "generate"
    /\ IF Len(disasters_list) = 0
       THEN /\ pc' = "raised"
            /\ exc' = [type |-> "IndexError", at |-> "generate"]
            /\ UNCHANGED columns
       ELSE /\ pc' = "generated"
            /\ columns' = DictKeys(disasters_list[1])
            /\ UNCHANGED exc
    /\ UNCHANGED <<idx, listing, fetched, disasters_list, log, data, flat, fpc>>

\* dataset.update_from_yaml(...); dataset.create_in_hdx(...)
CreateInHdx ==
    /\ pc = "generated"
    /\ pc' = "done"
    /\ UNCHANGED <<idx, listing, fetched, disasters_list, log, exc, columns, data, flat, fpc>>

Next ==
    \/ DownloadListing
    \/ ListingFails
    \/ ScrapeItem
    \/ ScrapeReturn
    \/ GenerateDataset
    \/ CreateInHdx

Spec == Init /\ [][Next]_vars

-----------------------------------------------------------------------------
(* What the claims speak of: leaves, paths, aggregations *)

RECURSIVE NoLists(_)
NoLists(v) == ~IsList(v) /\ \A i \in 1..Len(v.kv) : NoLists(v.kv[i][2])

\* the leaves of a tree without lists, depth first: <<path of keys, value>>
RECURSIVE TreeLeaves(_, _)
RECURSIVE TreeLeavesFrom(_, _, _)
TreeLeaves(v, path) ==
    IF IsDict(v) THEN TreeLeavesFrom(v.kv, 1, path) ELSE <<<<path, v>>>>
TreeLeavesFrom(items, i, path) ==
    IF i > Len(items) THEN <<>>
    ELSE TreeLeaves(items[i][2], Append(path, items[i][1]))
            \o TreeLeavesFrom(items, i + 1, path)

\* sep.join(path): the keys of the path joined by the separator
RECURSIVE JoinedPath(_)
JoinedPath(path) ==
    IF Len(path) = 0 THEN <<"">>
    ELSE IF Len(path) = 1 THEN path[1]
    ELSE JoinedPath(SubSeq(path, 1, Len(path) - 1)) \o path[Len(path)]

\* the path joined step by step, a key standing alone under an empty parent path
RECURSIVE SteppedPath(_)
SteppedPath(path) ==
    IF Len(path) = 0 THEN <<"">>
    ELSE LET parent == SteppedPath(SubSeq(path, 1, Len(path) - 1))
         IN  IF parent = <<"">> THEN path[Len(path)] ELSE parent \o path[Len(path)]

SetMax(S) == CHOOSE x \in S : \A y \in S : y <= x

Returned == fpc = "return"

\* d is a mapping with one entry, a list
SingleList(d) == IsDict(d) /\ Len(d.kv) = 1 /\ IsList(d.kv[1][2])

AllDicts(l) == \A i \in 1..Len(l) : IsDict(l[i])
AllScalars(l) == \A i \in 1..Len(l) : ~IsDict(l[i]) /\ ~IsList(l[i])
KeySet(e) == {e.kv[i][1] : i \in 1..Len(e.kv)}

\* the values the mappings of l hold for key k, in element order
RECURSIVE ValuesFrom(_, _, _)
ValuesFrom(l, i, k) ==
    IF i > Len(l) THEN <<>>
    ELSE (IF IsDict(l[i]) /\ DictHas(l[i].kv, k) THEN <<DictGet(l[i].kv, k)>> ELSE <<>>)
            \o ValuesFrom(l, i + 1, k)

\* the ", "-join of the stringified values
Joined(values) == PyStrVal(CommaJoin([i \in 1..Len(values) |-> PyStr(values[i])]))

-----------------------------------------------------------------------------
(* C1 *)

\* C1: for a list of n >= 1 mappings at path p, all with the same scalar-valued
\* keys, the result holds for each such key k one entry p + sep + k, the
\* ", "-join of the n stringified values of k in index order, and nothing else.
UniformListAggregated ==
    LET p == data.kv[1][1]
        l == data.kv[1][2].xs
    IN  (/\ Returned /\ SingleList(data)
         /\ Len(l) >= 1 /\ AllDicts(l)
         /\ \A i \in 1..Len(l) : KeySet(l[i]) = KeySet(l[1]))
        => /\ \A k \in KeySet(l[1]) :
                /\ DictHas(flat, p \o k)
                /\ DictGet(flat, p \o k) = Joined(ValuesFrom(l, 1, k))
           /\ Len(flat) = Cardinality(KeySet(l[1]))

\* C1 holds of the code when the path p is not empty
UniformListAggregatedUnderKey ==
    (SingleList(data) /\ data.kv[1][1] = <<"">>) \/ UniformListAggregated

-----------------------------------------------------------------------------
(* C2 *)

\* C2, for a list L that is not empty: for a list L of scalars only at path p,
\* _flatten_data({p: L}) is exactly {p: ", ".join(map(str, L))}.
ScalarListJoinedUnderItsKey ==
    LET p == data.kv[1][1]
        l == data.kv[1][2].xs
    IN  (Returned /\ SingleList(data) /\ Len(l) >= 1 /\ AllScalars(l))
        => flat = <<<<p, Joined(l)>>>>

\* what the code returns instead: nothing for an empty list, else the join
\* under the key p + sep + p
ScalarListJoinedUnderDoubledKey ==
    LET p == data.kv[1][1]
        l == data.kv[1][2].xs
    IN  (Returned /\ SingleList(data) /\ AllScalars(l))
        => flat = IF Len(l) = 0 THEN <<>> ELSE <<<<p \o p, Joined(l)>>>>

-----------------------------------------------------------------------------
(* C9 *)

\* C9, for a list of mappings under a non-empty key p: the value of p + sep + k
\* is the ", "-join of the values of exactly the elements that hold k, in
\* element order; an element without k adds nothing to it.
ListJoinOmitsMissing ==
    LET p == data.kv[1][1]
        l == data.kv[1][2].xs
    IN  (Returned /\ SingleList(data) /\ p # <<"">> /\ Len(l) >= 1 /\ AllDicts(l))
        => \A k \in UNION {KeySet(l[i]) : i \in 1..Len(l)} :
                /\ DictHas(flat, p \o k)
                /\ DictGet(flat, p \o k) = Joined(ValuesFrom(l, 1, k))

-----------------------------------------------------------------------------
(* C10 *)

\* the keys a list l at path p can itself give rise to
ListOwnKeys(p, l) ==
    {p, p \o p}
    \cup UNION {{k, p \o k} : k \in UNION {KeySet(l[i]) : i \in {j \in 1..Len(l) : IsDict(l[j])}}}

\* C10: a scalar entry beside a list keeps its key and its unstringified value,
\* also when its key begins with p + sep (the key is none the list itself
\* gives rise to).
ListLeavesSiblingAlone ==
    \A i \in 1..2 :
        LET sibling == data.kv[i]
            p == data.kv[3 - i][1]
            l == data.kv[3 - i][2]
        IN  (/\ Returned /\ IsDict(data) /\ Len(data.kv) = 2
             /\ IsList(l) /\ ~IsList(sibling[2]) /\ ~IsDict(sibling[2])
             /\ sibling[1] \notin ListOwnKeys(p, l.xs))
            => /\ DictHas(flat, sibling[1])
               /\ DictGet(flat, sibling[1]) = sibling[2]

-----------------------------------------------------------------------------
(* C3 *)

\* C3 as stated: for a tree of nested mappings with scalar leaves and no lists
\* the result has as many keys as the tree has leaves, and each leaf is found,
\* value unchanged, under the separator-joined path of its keys.
FlattenTreeOneKeyPerLeaf ==
    (Returned /\ NoLists(data)) =>
        LET leaves == TreeLeaves(data, <<>>)
        IN  /\ Len(flat) = Len(leaves)
            /\ \A j \in 1..Len(leaves) :
                 /\ DictHas(flat, JoinedPath(leaves[j][1]))
                 /\ DictGet(flat, JoinedPath(leaves[j][1])) = leaves[j][2]

\* C3 amended: for a tree of nested mappings with scalar leaves and no lists
\* the result has exactly one key per distinct leaf path, the path joined step
\* by step (a key stands alone under an empty parent path); the value is the
\* unchanged value of the last leaf, depth first, with that path; so when the
\* leaf paths are pairwise distinct there is exactly one key per leaf.
FlattenTreeOneKeyPerPath ==
    (Returned /\ NoLists(data)) =>
        LET leaves == TreeLeaves(data, <<>>)
            key(j) == SteppedPath(leaves[j][1])
        IN  /\ {flat[i][1] : i \in 1..Len(flat)} = {key(j) : j \in 1..Len(leaves)}
            /\ \A i, j \in 1..Len(flat) : flat[i][1] = flat[j][1] => i = j
            /\ \A i \in 1..Len(flat) :
                 flat[i][2] = leaves[SetMax({j \in 1..Len(leaves) : key(j) = flat[i][1]})][2]
            /\ (\A i, j \in 1..Len(leaves) : key(i) = key(j) => i = j)
                    => Len(flat) = Len(leaves)

\* a tree with four leaves at depth two, four keys in the result
FlattenTreeWitness ==
    /\ Returned /\ NoLists(data)
    /\ Len(TreeLeaves(data, <<>>)) = 4
    /\ \A j \in 1..4 : Len(TreeLeaves(data, <<>>)[j][1]) = 2
    /\ Len(flat) = 4

-----------------------------------------------------------------------------
(* What the claims speak of: the items fetched and the rows they give *)

NotFound(o) == o.raises /\ o.msg404
OtherError(o) == o.raises /\ ~o.msg404
EmptyBody(o) == ~o.raises /\ Falsy(o.body)
NonEmptyBody(o) == ~o.raises /\ ~Falsy(o.body)

\* the fields of a detail response, data[0].fields
FieldsOf(body) == DictGet(DictGet(body.kv, DataKey).xs[1].kv, FieldsKey)

DenyList ==
    {<<"uuid">>, <<"type", "primary">>, <<"country", "primary">>,
     <<"profile", "overview">>, <<"profile", "overview", "html">>}

\* the entries of d whose key is not on the denylist, in order
RECURSIVE Kept(_, _)
Kept(d, i) ==
    IF i > Len(d) THEN <<>>
    ELSE (IF d[i][1] \in DenyList THEN <<>> ELSE <<d[i]>>) \o Kept(d, i + 1)

\* scrape_data has returned its list
ScrapeReturned == pc \in {"generate", "generated", "done"} \/ exc.at = "generate"

-----------------------------------------------------------------------------
(* C4 *)

\* C4: the list scrape_data returns holds exactly one row for each item whose
\* fetch returned a non-empty body and none for the others, in listing order;
\* its length is N less the not-found, the other-error and the empty-body
\* counts.
ScrapeKeepsNonEmptyInOrder ==
    ScrapeReturned =>
        LET kept == SelectSeq(fetched, NonEmptyBody)
        IN  /\ Len(fetched) = Len(listing)
            /\ Len(disasters_list) = Len(listing) - Len(SelectSeq(fetched, NotFound))
                    - Len(SelectSeq(fetched, OtherError)) - Len(SelectSeq(fetched, EmptyBody))
            /\ Len(disasters_list) = Len(kept)
            /\ \A j \in 1..Len(kept) :
                 disasters_list[j] = Kept(FlattenData(FieldsOf(kept[j].body)), 1)

\* two items, the first not found, the second with a body: one row
ScrapeKeepsWitness ==
    /\ pc = "generate"
    /\ Len(listing) = 2
    /\ NotFound(fetched[1]) /\ NonEmptyBody(fetched[2])
    /\ Len(disasters_list) = 1

\* two items with different bodies: two different rows
ScrapeOrderWitness ==
    /\ pc = "generate"
    /\ Len(disasters_list) = 2
    /\ disasters_list[1] # disasters_list[2]

-----------------------------------------------------------------------------
(* C5 *)

\* C5: when scrape_data returns an empty list the pipeline reports EmptyBatch,
\* it does not fail with an index out of range on the first row.
EmptyBatchReported ==
    (ScrapeReturned /\ Len(disasters_list) = 0 /\ pc # "generate")
        => exc.type = "EmptyBatch"

-----------------------------------------------------------------------------
(* C6 *)

\* C6: whatever the retriever does for an item, no exception leaves the loop
\* of scrape_data.
NoItemAbortsRun == exc.at # "item"

\* The loop is left by an exception only for a non-empty body that is not
\* {"data": [{"fields": ...}, ...]}.
OnlyMalformedBodyAborts ==
    exc.at = "item" =>
        /\ NonEmptyBody(fetched[Len(fetched)])
        /\ fetched[Len(fetched)].body \in MalformedBodies

-----------------------------------------------------------------------------
(* C7 *)

\* C7: no row of scrape_data holds a denylist key, whatever the record held,
\* and every other flattened key of the record is still in the row.
RowsWithoutDenyList ==
    LET kept == SelectSeq(fetched, NonEmptyBody)
    IN  \A j \in 1..Len(disasters_list) :
            LET full == FlattenData(FieldsOf(kept[j].body))
                r == disasters_list[j]
            IN  /\ \A i \in 1..Len(r) : r[i][1] \notin DenyList
                /\ \A i \in 1..Len(full) :
                     full[i][1] \notin DenyList =>
                        DictHas(r, full[i][1]) /\ DictGet(r, full[i][1]) = full[i][2]

\* a row of a record whose flattening gave a denylist key from a nested mapping
\* or a list, and another key
RowsWithoutDenyListWitness ==
    /\ Len(disasters_list) >= 1
    /\ LET full == FlattenData(FieldsOf(SelectSeq(fetched, NonEmptyBody)[1].body))
       IN  /\ \E i \in 1..Len(full) : full[i][1] \in DenyList /\ Len(full[i][1]) > 1
           /\ Len(disasters_list[1]) >= 1

-----------------------------------------------------------------------------
(* C8 *)

\* the first occurrences of the elements of q, in order
RECURSIVE FirstOccurrences(_, _)
FirstOccurrences(q, i) ==
    IF i = 0 THEN <<>>
    ELSE LET before == FirstOccurrences(q, i - 1)
         IN  IF \E j \in 1..(i - 1) : q[j] = q[i] THEN before ELSE Append(before, q[i])

\* the keys of q that are not on the denylist, in order
RECURSIVE KeptKeys(_, _)
KeptKeys(q, i) ==
    IF i > Len(q) THEN <<>>
    ELSE (IF q[i] \in DenyList THEN <<>> ELSE <<q[i]>>) \o KeptKeys(q, i + 1)

HasScalar(l) == \E i \in 1..Len(l) : ~IsDict(l[i])

\* The keys in the order a depth-first traversal reaches them: mapping keys in
\* insertion order, list elements in index order, the elements of a list
\* under the list's own path; a scalar element of a list stands for the key
\* that joins the list's scalars.  With atEnd that key is reached when the
\* list has been traversed, else at the scalar element itself.
RECURSIVE ReachedKeys(_, _, _)
RECURSIVE ReachedInDict(_, _, _, _)
RECURSIVE ReachedInList(_, _, _, _)
ReachedKeys(v, p, atEnd) ==
    IF IsDict(v) THEN ReachedInDict(v.kv, 1, p, atEnd)
    ELSE IF IsList(v)
    THEN ReachedInList(v.xs, 1, p, atEnd)
            \o (IF atEnd /\ HasScalar(v.xs) THEN <<p \o p>> ELSE <<>>)
    ELSE <<p>>
ReachedInDict(items, i, p, atEnd) ==
    IF i > Len(items) THEN <<>>
    ELSE ReachedKeys(items[i][2], IF p = <<"">> THEN items[i][1] ELSE p \o items[i][1], atEnd)
            \o ReachedInDict(items, i + 1, p, atEnd)
ReachedInList(elems, i, p, atEnd) ==
    IF i > Len(elems) THEN <<>>
    ELSE (IF IsDict(elems[i]) THEN ReachedKeys(elems[i], p, atEnd)
          ELSE IF atEnd THEN <<>> ELSE <<p \o p>>)
            \o ReachedInList(elems, i + 1, p, atEnd)

\* the keys of a record's row in the order of that traversal, denylist removed
RowOrder(fields, atEnd) ==
    LET reached == ReachedKeys(fields, <<"">>, atEnd)
    IN  KeptKeys(FirstOccurrences(reached, Len(reached)), 1)

\* C8 as stated: the keys of each row are in the order in which the traversal
\* first reaches them, denylist keys removed, and the column list is the first
\* row's key sequence.
RowKeysInReachOrder ==
    LET kept == SelectSeq(fetched, NonEmptyBody)
    IN  /\ \A j \in 1..Len(disasters_list) :
             DictKeys(disasters_list[j]) = RowOrder(FieldsOf(kept[j].body), FALSE)
        /\ pc \in {"generated", "done"} => columns = DictKeys(disasters_list[1])

\* C8 amended: the keys of each row are in the order in which the traversal
\* first reaches them, the key that joins a list's scalar elements being
\* reached only when the list has been traversed (after the keys of the
\* list's mappings), denylist keys removed; re-emitting a list's joined value
\* does not move a key; the column list is the first row's key sequence.
RowKeysInEmitOrder ==
    LET kept == SelectSeq(fetched, NonEmptyBody)
    IN  /\ \A j \in 1..Len(disasters_list) :
             DictKeys(disasters_list[j]) = RowOrder(FieldsOf(kept[j].body), TRUE)
        /\ pc \in {"generated", "done"} => columns = DictKeys(disasters_list[1])

\* columns handed over for a first row that holds a list's re-emitted keys
\* before a later key, with a denylist key removed
RowKeysWitness ==
    /\ pc = "generated"
    /\ Len(columns) = 2
    /\ columns = <<<<"type", "id">>, <<"id">>>>
    /\ Len(FlattenData(FieldsOf(SelectSeq(fetched, NonEmptyBody)[1].body))) = 3

\* the order of the flattener's keys, for every input of FlattenSpec
FlattenKeysInEmitOrder ==
    Returned =>
        LET reached == ReachedKeys(data, <<"">>, TRUE)
        IN  DictKeys(flat) = FirstOccurrences(reached, Len(reached))

====
